---- MODULE Spec2Model ----
(***************************************************************************)
(* Model of the go-sample-app metric collection engine.                    *)
(*                                                                         *)
(*   collection/collector.go : randomMetricCollector, its four instrument  *)
(*     registrations, the scheduler goroutine of UpdateMetricsClient, the  *)
(*     two SDK-driven callbacks and the threads-active oscillator.         *)
(*   main program (package main): getConf/getDefaultConfig and updateLoop  *)
(*     with upDownCounterObserver, which has its own package-level         *)
(*     threadsActive/threadsBool.                                          *)
(*                                                                         *)
(* An instrument's accumulated value is modelled as the sum of the values  *)
(* the code hands to Add; an async instrument as the sequence of values    *)
(* handed to Observe.                                                      *)
(***************************************************************************)
EXTENDS Integers, Sequences, FiniteSets, TLC

\* ---- bounds of the model ------------------------------------------------
MaxTicks == 7          \* scheduler fires explored
MaxUpperBound == 3     \* largest ThreadsActiveUpperBound explored
MaxRandBound == 1      \* largest CpuUsage/TotalHeapSize upper bound explored
MaxIncrementer == 2    \* largest TimeAliveIncrementer explored
MaxMainTicks == 6      \* updateLoop iterations explored
MaxCallbacks == 1      \* SDK invocations explored per callback

MaxRegFailures == 1    \* registrations that fail in one startup
NumGoroutines == 2     \* calls of UpdateMetricsClient explored on one process
MaxRaceFires == 2      \* fires explored per scheduler goroutine

\* ---- instrument names (collector.go:43,56,70,84) -------------------------
TimeAlive == "Time Alive"
CpuUsage == "CPU Usage"
HeapSize == "Total Heap Size"
ThreadsActive == "Threads Active"
Instruments == {TimeAlive, CpuUsage, HeapSize, ThreadsActive}
AsyncInstruments == {CpuUsage, HeapSize}

\* Config values handed to UpdateMetricsClient (int64 fields). The two
\* callbacks run the same code on their bound, so a bound below zero is
\* explored on CPU Usage.
ConfigSpace ==
    [ TimeAliveIncrementer    : (-1)..MaxIncrementer,
      TotalheapSizeUpperBound : 0..MaxRandBound,
      ThreadsActiveUpperBound : (-1)..MaxUpperBound,
      CpuUsageUpperBound      : (-1)..MaxRandBound ]

VARIABLES
    cfg,             \* the Config passed to UpdateMetricsClient
    pc,              \* caller position: "new" -> "collector" -> "updateCpuUsage"
                     \*                  -> "updateTotalHeapSize" -> "running"
    regCalls,        \* instrument name -> number of meter registration calls
    regFailed,       \* instrument names whose registration returned an error
    schedPc,         \* scheduler goroutine: "off", "updateTimeAlive", "updateThreadsActive", "sleep"
    threadsActive,   \* package variable threadsActive
    threadsBool,     \* package variable threadsBool (TRUE = rising)
    timeAliveSum,    \* sum of the values passed to timeAlive.Add
    timeAliveCalls,  \* number of timeAlive.Add calls
    threadsSum,      \* sum of the deltas passed to threadsActive.Add
    tickLog,         \* per oscillator tick: deltas passed to Add, state left behind
    observed,        \* async instrument name -> sequence of observed values
    cbRegistered,    \* async instruments that have a callback registered
    cbFailed,        \* callbacks whose invocation panicked
    crashed          \* the process died of an unrecovered panic

collVars == << cfg, pc, regCalls, regFailed, schedPc, threadsActive, threadsBool,
               timeAliveSum, timeAliveCalls, threadsSum, tickLog, observed,
               cbRegistered, cbFailed, crashed >>

\* ---- state of the main program (package main) ---------------------------
VARIABLES
    mainPc,            \* main(): "getConf" -> "startClient" -> "updateLoop" -> "wait"
                       \*         -> "shutdown" (deferred call running) -> "exited"
    c,                 \* var c conf
    confInput,         \* what getConf met: the file's state, what Unmarshal wrote
    signal,            \* the signal delivered on ch, "none" before
    flush,             \* outcome of ctrl.Stop in the deferred shutdown, "none" before
    mainThreadsActive, \* package main's threadsActive
    mainThreadsBool,   \* package main's threadsBool
    mainRegCalls,      \* instrument name -> number of meter registration calls
    mainThreadsSum,    \* sum of the deltas passed to upDownCounter.Add
    mainTickLog        \* per updateLoop iteration: deltas passed to Add, state left

mainVars == << mainPc, c, confInput, signal, flush, mainThreadsActive, mainThreadsBool, mainRegCalls,
               mainThreadsSum, mainTickLog >>

\* ---- UpdateMetricsClient called more than once ---------------------------
VARIABLES
    gPc,      \* scheduler goroutine -> its position in the loop body
    gLocal,   \* scheduler goroutine -> what it holds in registers
    gFires    \* scheduler goroutine -> fires completed

raceVars == << gPc, gLocal, gFires >>

vars == << collVars, mainVars, raceVars >>

\* number of completed calls of updateThreadsActive
ticks == Len(tickLog)

RECURSIVE SumSeq(_)
SumSeq(s) == IF s = << >> THEN 0 ELSE Head(s) + SumSeq(Tail(s))

\* ---- collector.go -------------------------------------------------------

\* package-level state and a fresh process
CollInit ==
    /\ cfg \in ConfigSpace
    /\ pc = "new"
    /\ regCalls = [i \in Instruments |-> 0]
    /\ regFailed = {}
    /\ schedPc = "off"
    /\ threadsActive = 0
    /\ threadsBool = TRUE
    /\ timeAliveSum = 0
    /\ timeAliveCalls = 0
    /\ threadsSum = 0
    /\ tickLog = << >>
    /\ observed = [i \in AsyncInstruments |-> << >>]
    /\ cbRegistered = {}
    /\ cbFailed = {}
    /\ crashed = FALSE

\* NewRandomMetricCollector: the four register* methods each call the meter
\* once; an error is printed and the collector is returned all the same.
NewRandomMetricCollector ==
    /\ pc = "new"
    /\ ~crashed
    /\ \E failed \in { f \in SUBSET Instruments : Cardinality(f) <= MaxRegFailures } :
          /\ regCalls' = [i \in Instruments |-> regCalls[i] + 1]
          /\ regFailed' = failed
    /\ pc' = "collector"
    /\ UNCHANGED << cfg, schedPc, threadsActive, threadsBool, timeAliveSum,
                    timeAliveCalls, threadsSum, tickLog, observed,
                    cbRegistered, cbFailed, crashed >>
    /\ UNCHANGED << mainVars, raceVars >>

\* UpdateMetricsClient, its go statement: the scheduler goroutine is started
\* and the caller goes on to rmc.updateCpuUsage.
UpdateMetricsClient ==
    /\ pc = "collector"
    /\ ~crashed
    /\ schedPc' = "updateTimeAlive"
    /\ pc' = "updateCpuUsage"
    /\ UNCHANGED << cfg, regCalls, regFailed, threadsActive, threadsBool,
                    timeAliveSum, timeAliveCalls, threadsSum, tickLog,
                    observed, cbRegistered, cbFailed, crashed >>
    /\ UNCHANGED << mainVars, raceVars >>

\* meter.RegisterCallback for async instrument i: on an error the caller
\* panics, else the callback is registered and the caller goes on to after.
RegisterCallback(i, after) ==
    /\ ~crashed
    /\ \E err \in BOOLEAN :
          IF err
          THEN /\ crashed' = TRUE
               /\ UNCHANGED << cbRegistered, pc >>
          ELSE /\ cbRegistered' = cbRegistered \cup {i}
               /\ pc' = after
               /\ UNCHANGED crashed
    /\ UNCHANGED << cfg, regCalls, regFailed, schedPc, threadsActive,
                    threadsBool, timeAliveSum, timeAliveCalls, threadsSum,
                    tickLog, observed, cbFailed >>
    /\ UNCHANGED << mainVars, raceVars >>

\* updateCpuUsage: registers the CPU Usage callback
UpdateCpuUsage ==
    /\ pc = "updateCpuUsage"
    /\ RegisterCallback(CpuUsage, "updateTotalHeapSize")

\* updateTotalHeapSize: registers the Total Heap Size callback
UpdateTotalHeapSize ==
    /\ pc = "updateTotalHeapSize"
    /\ RegisterCallback(HeapSize, "running")

\* Variant: the counter is stepped by one whatever the Config says.
TimeAliveAdd_AlwaysOne(config) == 1

\* updateTimeAlive: rmc.timeAlive.Add(ctx, cfg.TimeAliveIncrementer)
TimeAliveAdd(config) == config.TimeAliveIncrementer

UpdateTimeAlive ==
    /\ schedPc = "updateTimeAlive"
    /\ ~crashed
    /\ ticks < MaxTicks
    /\ timeAliveSum' = timeAliveSum + TimeAliveAdd(cfg)
    /\ timeAliveCalls' = timeAliveCalls + 1
    /\ schedPc' = "updateThreadsActive"
    /\ UNCHANGED << cfg, pc, regCalls, regFailed, threadsActive, threadsBool,
                    threadsSum, tickLog, observed, cbRegistered, cbFailed,
                    crashed >>
    /\ UNCHANGED << mainVars, raceVars >>

\* Variant: the rising bound check is <= instead of <.
ThreadsStep_OffByOne(v, rising, bound) ==
    IF rising
    THEN IF v <= bound
         THEN [active |-> v + 1, rising |-> TRUE,  adds |-> << 1 >>]
         ELSE [active |-> v - 1, rising |-> FALSE, adds |-> << >>]
    ELSE IF v > 0
         THEN [active |-> v - 1, rising |-> FALSE, adds |-> << -1 >>]
         ELSE [active |-> v + 1, rising |-> TRUE,  adds |-> << >>]

\* Variant: a boundary tick flips the direction and leaves the value alone.
ThreadsStep_FlipOnly(v, rising, bound) ==
    IF rising
    THEN IF v < bound
         THEN [active |-> v + 1, rising |-> TRUE,  adds |-> << 1 >>]
         ELSE [active |-> v,     rising |-> FALSE, adds |-> << >>]
    ELSE IF v > 0
         THEN [active |-> v - 1, rising |-> FALSE, adds |-> << -1 >>]
         ELSE [active |-> v,     rising |-> TRUE,  adds |-> << >>]

\* Variant: the rising branch turns one step before the bound.
ThreadsStep_TurnsEarly(v, rising, bound) ==
    IF rising
    THEN IF v < bound - 1
         THEN [active |-> v + 1, rising |-> TRUE,  adds |-> << 1 >>]
         ELSE [active |-> v - 1, rising |-> FALSE, adds |-> << >>]
    ELSE IF v > 0
         THEN [active |-> v - 1, rising |-> FALSE, adds |-> << -1 >>]
         ELSE [active |-> v + 1, rising |-> TRUE,  adds |-> << >>]

\* Variant: the falling bound check is >= instead of >.
ThreadsStep_LowerOffByOne(v, rising, bound) ==
    IF rising
    THEN IF v < bound
         THEN [active |-> v + 1, rising |-> TRUE,  adds |-> << 1 >>]
         ELSE [active |-> v - 1, rising |-> FALSE, adds |-> << >>]
    ELSE IF v >= 0
         THEN [active |-> v - 1, rising |-> FALSE, adds |-> << -1 >>]
         ELSE [active |-> v + 1, rising |-> TRUE,  adds |-> << >>]

\* updateThreadsActive as a function of (threadsActive, threadsBool, bound):
\* the new value, the new direction and the deltas passed to Add.
ThreadsStep(v, rising, bound) ==
    IF rising
    THEN IF v < bound
         THEN [active |-> v + 1, rising |-> TRUE,  adds |-> << 1 >>]
         ELSE [active |-> v - 1, rising |-> FALSE, adds |-> << >>]
    ELSE IF v > 0
         THEN [active |-> v - 1, rising |-> FALSE, adds |-> << -1 >>]
         ELSE [active |-> v + 1, rising |-> TRUE,  adds |-> << >>]

UpdateThreadsActive ==
    /\ schedPc = "updateThreadsActive"
    /\ ~crashed
    /\ LET r == ThreadsStep(threadsActive, threadsBool, cfg.ThreadsActiveUpperBound)
       IN  /\ threadsActive' = r.active
           /\ threadsBool' = r.rising
           /\ threadsSum' = threadsSum + SumSeq(r.adds)
           /\ tickLog' = Append(tickLog, r)
    /\ schedPc' = "sleep"
    /\ UNCHANGED << cfg, pc, regCalls, regFailed, timeAliveSum, timeAliveCalls,
                    observed, cbRegistered, cbFailed, crashed >>
    /\ UNCHANGED << mainVars, raceVars >>

\* Variant: the loop resumes at the oscillator and skips the counter.
Sleep_ResumesAtThreads ==
    /\ schedPc = "sleep"
    /\ ~crashed
    /\ schedPc' = "updateThreadsActive"
    /\ UNCHANGED << cfg, pc, regCalls, regFailed, threadsActive, threadsBool,
                    timeAliveSum, timeAliveCalls, threadsSum, tickLog,
                    observed, cbRegistered, cbFailed, crashed >>
    /\ UNCHANGED << mainVars, raceVars >>

\* time.Sleep(...) returns and the loop starts over
Sleep ==
    /\ schedPc = "sleep"
    /\ ~crashed
    /\ schedPc' = "updateTimeAlive"
    /\ UNCHANGED << cfg, pc, regCalls, regFailed, threadsActive, threadsBool,
                    timeAliveSum, timeAliveCalls, threadsSum, tickLog,
                    observed, cbRegistered, cbFailed, crashed >>
    /\ UNCHANGED << mainVars, raceVars >>

\* The upper bound a callback reads from the Config.
CallbackBound(i, config) ==
    IF i = CpuUsage THEN config.CpuUsageUpperBound
    ELSE config.TotalheapSizeUpperBound

\* rand.Intn(n): panics when n <= 0, else some value of [0, n)
IntnPanics(n) == n <= 0
\* Variant: the draw includes n.
IntnValues_Inclusive(n) == 0..n
IntnValues(n) == 0..(n - 1)

\* Variant: the callback publishes its draw through the package variable
\* threadsActive (the gauge wired to the shared threads-active state).
CallbackEffect_SharesThreads(i, r, panics) ==
    [ observed |-> IF panics THEN observed
                   ELSE [observed EXCEPT ![i] = Append(@, r)],
      cbFailed |-> IF panics THEN cbFailed \cup {i} ELSE cbFailed,
      crashed  |-> panics,
      threadsActive |-> IF panics THEN threadsActive ELSE r + 1,
      threadsBool   |-> threadsBool,
      timeAliveSum  |-> timeAliveSum,
      threadsSum    |-> threadsSum ]

\* What a callback invocation does to the process: the values it observes,
\* whether it panicked.  The closure has no recover, so a panic is fatal.
CallbackEffect(i, r, panics) ==
    [ observed |-> IF panics THEN observed
                   ELSE [observed EXCEPT ![i] = Append(@, r)],
      cbFailed |-> IF panics THEN cbFailed \cup {i} ELSE cbFailed,
      crashed  |-> panics,
      threadsActive |-> threadsActive,
      threadsBool   |-> threadsBool,
      timeAliveSum  |-> timeAliveSum,
      threadsSum    |-> threadsSum ]

\* The SDK invokes the callback registered for async instrument i.
Callback(i) ==
    /\ i \in cbRegistered
    /\ ~crashed
    /\ Len(observed[i]) < MaxCallbacks
    /\ LET max == CallbackBound(i, cfg)
       IN  \E r \in IF IntnPanics(max - 0) THEN {0} ELSE IntnValues(max - 0) :
              LET e == CallbackEffect(i, r + 0, IntnPanics(max - 0))
              IN  /\ observed' = e.observed
                  /\ cbFailed' = e.cbFailed
                  /\ crashed' = e.crashed
                  /\ threadsActive' = e.threadsActive
                  /\ threadsBool' = e.threadsBool
                  /\ timeAliveSum' = e.timeAliveSum
                  /\ threadsSum' = e.threadsSum
    /\ UNCHANGED << cfg, pc, regCalls, regFailed, schedPc, timeAliveCalls,
                    tickLog, cbRegistered >>
    /\ UNCHANGED << mainVars, raceVars >>

CpuUsageCallback == Callback(CpuUsage)
HeapSizeCallback == Callback(HeapSize)

CollNext ==
    \/ NewRandomMetricCollector
    \/ UpdateMetricsClient
    \/ UpdateCpuUsage
    \/ UpdateTotalHeapSize
    \/ UpdateTimeAlive
    \/ UpdateThreadsActive
    \/ Sleep
    \/ CpuUsageCallback
    \/ HeapSizeCallback

\* ---- several scheduler goroutines on the package variables ---------------

Goroutines == 1..NumGoroutines

RaceIdle ==
    /\ gPc = [g \in Goroutines |-> "off"]
    /\ gLocal = [g \in Goroutines |-> [rising |-> TRUE, delta |-> 0, tmp |-> 0]]
    /\ gFires = [g \in Goroutines |-> 0]

\* UpdateMetricsClient, its go statement, on a first or a later call: one
\* more goroutine runs the loop; the caller goes on to rmc.updateCpuUsage.
RaceUpdateMetricsClient ==
    /\ pc \in {"collector", "running"}
    /\ ~crashed
    /\ \E g \in Goroutines :
          /\ gPc[g] = "off"
          /\ \A h \in Goroutines : h < g => gPc[h] # "off"
          /\ gPc' = [gPc EXCEPT ![g] = "updateTimeAlive"]
    /\ pc' = "updateCpuUsage"
    /\ UNCHANGED << cfg, regCalls, regFailed, schedPc, threadsActive, threadsBool,
                    timeAliveSum, timeAliveCalls, threadsSum, tickLog,
                    observed, cbRegistered, cbFailed, crashed, gLocal, gFires >>
    /\ UNCHANGED mainVars

\* rmc.updateTimeAlive(ctx, cfg) in goroutine g
RaceUpdateTimeAlive ==
    /\ ~crashed
    /\ \E g \in Goroutines :
          /\ gPc[g] = "updateTimeAlive"
          /\ gFires[g] < MaxRaceFires
          /\ gPc' = [gPc EXCEPT ![g] = "readBool"]
    /\ timeAliveSum' = timeAliveSum + TimeAliveAdd(cfg)
    /\ timeAliveCalls' = timeAliveCalls + 1
    /\ UNCHANGED << cfg, pc, regCalls, regFailed, schedPc, threadsActive,
                    threadsBool, threadsSum, tickLog, observed, cbRegistered,
                    cbFailed, crashed, gLocal, gFires >>
    /\ UNCHANGED mainVars

\* if threadsBool {            -- the read of threadsBool
RaceReadBool ==
    /\ ~crashed
    /\ \E g \in Goroutines :
          /\ gPc[g] = "readBool"
          /\ gLocal' = [gLocal EXCEPT ![g].rising = threadsBool]
          /\ gPc' = [gPc EXCEPT ![g] = "check"]
    /\ UNCHANGED << collVars, gFires >>
    /\ UNCHANGED mainVars

\* if threadsActive < bound / if threadsActive > 0  -- the read and the test:
\* the branch that calls Add, or the branch that flips threadsBool
RaceCheck ==
    /\ ~crashed
    /\ \E g \in Goroutines :
          /\ gPc[g] = "check"
          /\ LET r == ThreadsStep(threadsActive, gLocal[g].rising,
                                  cfg.ThreadsActiveUpperBound)
             IN  /\ gLocal' = [gLocal EXCEPT ![g].delta = r.active - threadsActive]
                 /\ gPc' = [gPc EXCEPT ![g] =
                               IF r.rising = gLocal[g].rising THEN "add" ELSE "flip"]
    /\ UNCHANGED << collVars, gFires >>
    /\ UNCHANGED mainVars

\* rmc.threadsActive.Add(ctx, 1) / Add(ctx, -1)
RaceAdd ==
    /\ ~crashed
    /\ \E g \in Goroutines :
          /\ gPc[g] = "add"
          /\ threadsSum' = threadsSum + gLocal[g].delta
          /\ gPc' = [gPc EXCEPT ![g] = "load"]
    /\ UNCHANGED << cfg, pc, regCalls, regFailed, schedPc, threadsActive,
                    threadsBool, timeAliveSum, timeAliveCalls, tickLog,
                    observed, cbRegistered, cbFailed, crashed, gLocal, gFires >>
    /\ UNCHANGED mainVars

\* threadsBool = false / threadsBool = true
RaceFlip ==
    /\ ~crashed
    /\ \E g \in Goroutines :
          /\ gPc[g] = "flip"
          /\ threadsBool' = ~gLocal[g].rising
          /\ gPc' = [gPc EXCEPT ![g] = "load"]
    /\ UNCHANGED << cfg, pc, regCalls, regFailed, schedPc, threadsActive,
                    timeAliveSum, timeAliveCalls, threadsSum, tickLog,
                    observed, cbRegistered, cbFailed, crashed, gLocal, gFires >>
    /\ UNCHANGED mainVars

\* threadsActive++ / threadsActive--   -- the load
RaceLoad ==
    /\ ~crashed
    /\ \E g \in Goroutines :
          /\ gPc[g] = "load"
          /\ gLocal' = [gLocal EXCEPT ![g].tmp = threadsActive]
          /\ gPc' = [gPc EXCEPT ![g] = "store"]
    /\ UNCHANGED << collVars, gFires >>
    /\ UNCHANGED mainVars

\* threadsActive++ / threadsActive--   -- the store, then the sleep begins
RaceStore ==
    /\ ~crashed
    /\ \E g \in Goroutines :
          /\ gPc[g] = "store"
          /\ threadsActive' = gLocal[g].tmp + gLocal[g].delta
          /\ gPc' = [gPc EXCEPT ![g] = "sleep"]
          /\ gFires' = [gFires EXCEPT ![g] = @ + 1]
    /\ UNCHANGED << cfg, pc, regCalls, regFailed, schedPc, threadsBool,
                    timeAliveSum, timeAliveCalls, threadsSum, tickLog,
                    observed, cbRegistered, cbFailed, crashed, gLocal >>
    /\ UNCHANGED mainVars

\* time.Sleep(...) returns in goroutine g
RaceSleep ==
    /\ ~crashed
    /\ \E g \in Goroutines :
          /\ gPc[g] = "sleep"
          /\ gPc' = [gPc EXCEPT ![g] = "updateTimeAlive"]
    /\ UNCHANGED << collVars, gLocal, gFires >>
    /\ UNCHANGED mainVars

RaceNext ==
    \/ NewRandomMetricCollector
    \/ RaceUpdateMetricsClient
    \/ UpdateCpuUsage
    \/ UpdateTotalHeapSize
    \/ CpuUsageCallback
    \/ HeapSizeCallback
    \/ RaceUpdateTimeAlive
    \/ RaceReadBool
    \/ RaceCheck
    \/ RaceAdd
    \/ RaceFlip
    \/ RaceLoad
    \/ RaceStore
    \/ RaceSleep

\* ---- package main --------------------------------------------------------

\* Default values for random based metrics
defaultHost == "0.0.0.0"
defaultPort == "4567"
defaultTimeAliveIncrementer == 1
defaultTotalHeapSizeUpperBound == 100
defaultThreadsActiveUpperBound == 10
defaultCpuUsageUpperBound == 100

\* What yaml.Unmarshal can leave in the struct: a key the file omits keeps
\* the zero value ("" or 0), a key it carries takes the file's value.
YamlHosts == {"", "localhost"}
YamlPorts == {"", "8080"}
YamlConfs ==
    [ Host                    : YamlHosts,
      Port                    : YamlPorts,
      TimeAliveIncrementer    : (-1)..MaxIncrementer,
      TotalheapSizeUpperBound : (-1)..MaxRandBound,
      ThreadsActiveUpperBound : (-1)..MaxUpperBound,
      CpuUsageUpperBound      : (-1)..MaxRandBound ]

\* var c conf: the zero value of the struct
ZeroConf ==
    [ Host |-> "", Port |-> "", TimeAliveIncrementer |-> 0,
      TotalheapSizeUpperBound |-> 0, ThreadsActiveUpperBound |-> 0,
      CpuUsageUpperBound |-> 0 ]

\* Variant: a default is filled in only where the field is still zero.
getDefaultConfig_FillsZeroOnly(cf) ==
    [ Host |-> IF cf.Host = "" THEN defaultHost ELSE cf.Host,
      Port |-> IF cf.Port = "" THEN defaultPort ELSE cf.Port,
      TimeAliveIncrementer |->
          IF cf.TimeAliveIncrementer = 0 THEN defaultTimeAliveIncrementer
          ELSE cf.TimeAliveIncrementer,
      TotalheapSizeUpperBound |->
          IF cf.TotalheapSizeUpperBound = 0 THEN defaultTotalHeapSizeUpperBound
          ELSE cf.TotalheapSizeUpperBound,
      ThreadsActiveUpperBound |->
          IF cf.ThreadsActiveUpperBound = 0 THEN defaultThreadsActiveUpperBound
          ELSE cf.ThreadsActiveUpperBound,
      CpuUsageUpperBound |->
          IF cf.CpuUsageUpperBound = 0 THEN defaultCpuUsageUpperBound
          ELSE cf.CpuUsageUpperBound ]

\* getDefaultConfig: overwrites the six fields with the defaults
getDefaultConfig(cf) ==
    [ cf EXCEPT !.Host = defaultHost,
                !.Port = defaultPort,
                !.TimeAliveIncrementer = defaultTimeAliveIncrementer,
                !.TotalheapSizeUpperBound = defaultTotalHeapSizeUpperBound,
                !.ThreadsActiveUpperBound = defaultThreadsActiveUpperBound,
                !.CpuUsageUpperBound = defaultCpuUsageUpperBound ]

\* getConf: file is "missing" (ReadFile fails), "malformed" (Unmarshal fails
\* after writing y into the struct) or "ok" (Unmarshal wrote y).
getConf(cf, file, y) ==
    IF file = "missing" THEN getDefaultConfig(cf)
    ELSE IF file = "malformed" THEN getDefaultConfig(y)
    ELSE y

MainIdle ==
    /\ mainPc = "getConf"
    /\ c = ZeroConf
    /\ confInput = [file |-> "none", parsed |-> ZeroConf]
    /\ signal = "none"
    /\ flush = "none"
    /\ mainThreadsActive = 0
    /\ mainThreadsBool = TRUE
    /\ mainRegCalls = [i \in Instruments |-> 0]
    /\ mainThreadsSum = 0
    /\ mainTickLog = << >>

\* main: var c conf; c.getConf()
MainGetConf ==
    /\ mainPc = "getConf"
    /\ \E file \in {"missing", "malformed", "ok"},
          y \in YamlConfs :
          \* ReadFile failed: Unmarshal never ran and wrote nothing
          /\ file = "missing" => y = c
          /\ c' = getConf(c, file, y)
          /\ confInput' = [file |-> file, parsed |-> y]
    /\ mainPc' = "startClient"
    /\ UNCHANGED << signal, flush, mainThreadsActive, mainThreadsBool, mainRegCalls,
                    mainThreadsSum, mainTickLog >>
    /\ UNCHANGED << collVars, raceVars >>

\* main: shutdown := startClient(ctx); defer shutdown()
MainStartClient ==
    /\ mainPc = "startClient"
    /\ mainPc' = "updateLoop"
    /\ UNCHANGED << c, confInput, signal, flush, mainThreadsActive, mainThreadsBool, mainRegCalls,
                    mainThreadsSum, mainTickLog >>
    /\ UNCHANGED << collVars, raceVars >>

\* main: go updateLoop(ctx), then block on the signal channel
MainUpdateLoop ==
    /\ mainPc = "updateLoop"
    /\ mainPc' = "wait"
    /\ UNCHANGED << c, confInput, signal, flush, mainThreadsActive,
                    mainThreadsBool, mainRegCalls, mainThreadsSum, mainTickLog >>
    /\ UNCHANGED << collVars, raceVars >>

\* signal.Notify(ch, syscall.SIGINT, syscall.SIGQUIT, syscall.SIGTERM)
Signals == {"SIGINT", "SIGQUIT", "SIGTERM"}

\* main: <-ch returns, main returns and its deferred shutdown() starts
MainSignal ==
    /\ mainPc = "wait"
    /\ \E s \in Signals : signal' = s
    /\ mainPc' = "shutdown"
    /\ UNCHANGED << c, confInput, flush, mainThreadsActive, mainThreadsBool,
                    mainRegCalls, mainThreadsSum, mainTickLog >>
    /\ UNCHANGED << collVars, raceVars >>

\* what ctrl.Stop(cxt) can come back with under the one-second context
StopOutcomes == {"ok", "failed", "timeout"}

\* Variant: the deferred call waits on Stop without the deadline, so a Stop
\* that does not come back leaves main hanging.
AfterStop_WaitsOnTimeout(outcome) ==
    IF outcome = "timeout" THEN "shutdown" ELSE "exited"

\* the closure of startClient: an error of Stop goes to otel.Handle, the
\* closure returns and main ends
AfterStop(outcome) == "exited"

\* the deferred shutdown() runs
MainShutdown ==
    /\ mainPc = "shutdown"
    /\ flush = "none"
    /\ \E outcome \in StopOutcomes :
          /\ flush' = outcome
          /\ mainPc' = AfterStop(outcome)
    /\ UNCHANGED << c, confInput, signal, mainThreadsActive, mainThreadsBool,
                    mainRegCalls, mainThreadsSum, mainTickLog >>
    /\ UNCHANGED << collVars, raceVars >>

\* The instruments upDownCounterObserver asks the meter for on one call.
ObserverRegisters == {ThreadsActive}

\* One iteration of updateLoop: upDownCounterObserver(ctx), then the sleep.
UpDownCounterObserver ==
    /\ mainPc \in {"wait", "shutdown"}
    /\ Len(mainTickLog) < MaxMainTicks
    /\ mainRegCalls' = [i \in Instruments |->
                          IF i \in ObserverRegisters THEN mainRegCalls[i] + 1
                          ELSE mainRegCalls[i]]
    /\ LET r == ThreadsStep(mainThreadsActive, mainThreadsBool,
                            defaultThreadsActiveUpperBound)
       IN  /\ mainThreadsActive' = r.active
           /\ mainThreadsBool' = r.rising
           /\ mainThreadsSum' = mainThreadsSum + SumSeq(r.adds)
           /\ mainTickLog' = Append(mainTickLog, r)
    /\ UNCHANGED << mainPc, c, confInput, signal, flush >>
    /\ UNCHANGED << collVars, raceVars >>

MainNext ==
    \/ MainGetConf
    \/ MainStartClient
    \/ MainUpdateLoop
    \/ MainSignal
    \/ MainShutdown
    \/ UpDownCounterObserver

\* ---- specifications -----------------------------------------------------

\* the collection package driven by a caller, for every Config
Init == CollInit /\ MainIdle /\ RaceIdle
Next == CollNext

\* the main program; the collection package is not linked into it
CollIdle ==
    /\ CollInit
    /\ cfg = [ TimeAliveIncrementer |-> 0, TotalheapSizeUpperBound |-> 0,
               ThreadsActiveUpperBound |-> 0, CpuUsageUpperBound |-> 0 ]
MainInit == CollIdle /\ MainIdle /\ RaceIdle
SpecMain == MainInit /\ [][MainNext]_vars

\* main's own goroutine is scheduled: a deferred call that can run does run
SpecMainLive == MainInit /\ [][MainNext]_vars /\ WF_vars(MainShutdown)

Spec == Init /\ [][Next]_vars

\* several calls of UpdateMetricsClient; the Config varies in the threads
\* bound only
RaceInit ==
    /\ Init
    /\ cfg.TimeAliveIncrementer = 1
    /\ cfg.TotalheapSizeUpperBound = 1
    /\ cfg.CpuUsageUpperBound = 1
SpecRace == RaceInit /\ [][RaceNext]_vars

\* ---- the scheduler under fair scheduling ---------------------------------

\* the Config varies in the threads bound and the CPU Usage bound
LiveInit ==
    /\ Init
    /\ cfg.TimeAliveIncrementer = 1
    /\ cfg.TotalheapSizeUpperBound = 1

\* the goroutine of the loop is scheduled: each statement of the loop body
\* that can run does run, and time.Sleep returns
SpecLive ==
    /\ LiveInit
    /\ [][Next]_vars
    /\ WF_vars(UpdateTimeAlive)
    /\ WF_vars(UpdateThreadsActive)
    /\ WF_vars(Sleep)

\* ---- properties ----------------------------------------------------------

Bound == cfg.ThreadsActiveUpperBound

\* C1: for B >= 1, every tick, boundary ticks included, passes exactly one
\* delta to Add on Threads Active, and that delta is +1 or -1.
C1_OneDeltaPerTick ==
    Bound >= 1 =>
        \A n \in 1..ticks :
            /\ Len(tickLog[n].adds) = 1
            /\ tickLog[n].adds[1] \in {1, -1}

\* C2: for B >= 1 the oscillator value stays within [0, B] in every
\* reachable state.
C2_ValueInRange ==
    Bound >= 1 => (0 <= threadsActive /\ threadsActive <= Bound)

\* both boundaries have been visited and the value is back from the top
C2_Witness ==
    /\ Bound >= 2
    /\ ticks = 2 * Bound
    /\ threadsActive = 0
    /\ \E n \in 1..ticks : tickLog[n].active = Bound

\* C3 as written: for B >= 1, 2B ticks from (0, Rising) lead back to
\* (0, Rising).
C3_BackToRising ==
    (Bound >= 1 /\ ticks = 2 * Bound) => (threadsActive = 0 /\ threadsBool = TRUE)

\* C3 amended: for B >= 1, 2B ticks from (0, Rising) lead to (0, Falling);
\* (0, Rising) is not seen again after the first tick, and from the first tick
\* on the state after n + 2B ticks is the state after n ticks.
C3_PeriodFromFirstTick ==
    Bound >= 1 =>
        /\ ticks = 2 * Bound => (threadsActive = 0 /\ threadsBool = FALSE)
        /\ ticks >= 1 => ~(threadsActive = 0 /\ threadsBool = TRUE)
        /\ \A n \in 1..ticks :
              n > 2 * Bound =>
                 /\ tickLog[n].active = tickLog[n - 2 * Bound].active
                 /\ tickLog[n].rising = tickLog[n - 2 * Bound].rising

\* more than one full period has run
C3_Witness ==
    /\ Bound >= 2
    /\ ticks > 2 * Bound
    /\ threadsActive = 1
    /\ threadsBool = TRUE

\* C4: with B = 0 the value stays 0 after every tick, the direction
\* alternates on each tick and no delta is emitted out of range.
C4_DegenerateStaysZero ==
    Bound = 0 =>
        /\ threadsActive = 0
        /\ \A n \in 1..ticks :
              /\ tickLog[n].active = 0
              /\ tickLog[n].rising = (n % 2 = 0)
        /\ threadsSum = 0

\* C5: with bound 3, ticks 1..7 pass the deltas +1,+1,+1,-1,-1,-1,+1 to Add
\* and leave the values 1,2,3,2,1,0,1.
ScenarioDeltas == << 1, 1, 1, -1, -1, -1, 1 >>
ScenarioValues == << 1, 2, 3, 2, 1, 0, 1 >>
C5_Scenario ==
    Bound = 3 =>
        \A n \in 1..ticks :
            n <= Len(ScenarioValues) =>
                /\ tickLog[n].adds = << ScenarioDeltas[n] >>
                /\ tickLog[n].active = ScenarioValues[n]

\* C6: a callback invoked with upper bound 0 fails without an Observe and
\* the process stays alive.
C6_CallbackErrorConfined ==
    \A i \in AsyncInstruments :
        (i \in cbFailed /\ CallbackBound(i, cfg) = 0) =>
            (observed[i] = << >> /\ ~crashed)

\* C7: when a registration fails no collector is returned, and no scheduler
\* tick or callback runs against the instrument that failed.
C7_RegistrationFailureFatal ==
    regFailed # {} =>
        /\ pc = "new"
        /\ schedPc = "off"
        /\ TimeAlive \in regFailed => timeAliveCalls = 0
        /\ ThreadsActive \in regFailed => ticks = 0
        /\ \A i \in AsyncInstruments \cap regFailed :
              observed[i] = << >> /\ i \notin cbFailed

\* C8: an instrument the process registers is registered exactly once, however
\* many scheduler ticks and callback invocations have run.
C8_RegisteredOnce ==
    \A i \in Instruments :
        /\ pc # "new" => regCalls[i] = 1
        /\ mainRegCalls[i] > 0 => mainRegCalls[i] = 1

\* the oscillator state n ticks after (0, Rising)
RECURSIVE OscAfter(_, _)
OscAfter(n, bound) ==
    IF n = 0 THEN [active |-> 0, rising |-> TRUE, adds |-> << >>]
    ELSE LET p == OscAfter(n - 1, bound)
         IN  ThreadsStep(p.active, p.rising, bound)

\* the steps of the scheduler goroutine and of the SDK's collection
SchedulerStep == UpdateTimeAlive \/ UpdateThreadsActive \/ Sleep
CallbackStep == CpuUsageCallback \/ HeapSizeCallback

\* C9: a callback invocation leaves the oscillator state and both sync
\* instruments alone and makes at most one Observe, on its own instrument; a
\* scheduler step makes no Observe; so the oscillator state depends on the
\* number of ticks only, whatever the interleaving.
C9_CallbackFrame ==
    /\ [][ /\ \A i \in AsyncInstruments :
                Callback(i) =>
                   /\ UNCHANGED << threadsActive, threadsBool, timeAliveSum,
                                   timeAliveCalls, threadsSum, tickLog >>
                   /\ \A j \in AsyncInstruments \ {i} : observed'[j] = observed[j]
                   /\ Len(observed'[i]) <= Len(observed[i]) + 1
                   /\ SubSeq(observed'[i], 1, Len(observed[i])) = observed[i]
           /\ SchedulerStep => UNCHANGED << observed, cbFailed >>
         ]_vars
    /\ [](LET o == OscAfter(ticks, Bound)
          IN  threadsActive = o.active /\ threadsBool = o.rising)

\* both callbacks have observed in between scheduler ticks
C9_Witness ==
    /\ ticks >= 2
    /\ observed[CpuUsage] # << >>
    /\ observed[HeapSize] # << >>
    /\ threadsActive = 2

\* C10: between fires, after n ticks the Time Alive counter holds n * k; in
\* the middle of a fire it holds the add of the fire under way as well.
C10_TimeAliveIsNTimesK ==
    LET n == IF schedPc = "updateThreadsActive" THEN ticks + 1 ELSE ticks
    IN  /\ timeAliveCalls = n
        /\ timeAliveSum = n * cfg.TimeAliveIncrementer

\* five ticks with an incrementer of 2 leave 10
C10_Witness ==
    /\ cfg.TimeAliveIncrementer = 2
    /\ ticks = 5
    /\ schedPc = "sleep"
    /\ timeAliveSum = 10

\* the Configs getConf can return, seen as the Config of the scheduler
LoaderHandsOut(config) ==
    \E file \in {"missing", "malformed", "ok"}, y \in YamlConfs :
        LET r == getConf(ZeroConf, file, y)
        IN  /\ r.TimeAliveIncrementer = config.TimeAliveIncrementer
            /\ r.TotalheapSizeUpperBound = config.TotalheapSizeUpperBound
            /\ r.ThreadsActiveUpperBound = config.ThreadsActiveUpperBound
            /\ r.CpuUsageUpperBound = config.CpuUsageUpperBound

\* C11: for every Config the loader can hand over, the amount added to Time
\* Alive on a tick is not negative and the counter's value has not gone down.
C11_NeverNegativeAdd ==
    (LoaderHandsOut(cfg) /\ timeAliveCalls >= 1) =>
        (TimeAliveAdd(cfg) >= 0 /\ timeAliveSum >= 0)

\* C12: the exporter's Stop is attempted only once a termination signal has
\* been received, and after a signal the process exits, whether Stop
\* succeeded, failed or timed out.
C12_FlushAfterSignalThenExit ==
    /\ [](flush # "none" => signal \in Signals)
    /\ [](mainPc = "exited" => flush \in StopOutcomes)
    /\ (signal # "none") ~> (mainPc = "exited")

\* the process has exited after a Stop that timed out
C12_Witness ==
    /\ signal = "SIGTERM"
    /\ flush = "timeout"
    /\ mainPc = "exited"
    /\ Len(mainTickLog) >= 1

\* the defaults as documented
DocumentedDefaults ==
    [ Host |-> "0.0.0.0", Port |-> "4567", TimeAliveIncrementer |-> 1,
      TotalheapSizeUpperBound |-> 100, ThreadsActiveUpperBound |-> 10,
      CpuUsageUpperBound |-> 100 ]

\* C13: a missing file and a malformed file both leave the documented
\* defaults in every field, whatever the failed parse wrote before failing.
C13_DefaultsOnFailure ==
    confInput.file \in {"missing", "malformed"} => c = DocumentedDefaults

\* a parse that failed after writing non-default values into every field
C13_Witness ==
    /\ confInput.file = "malformed"
    /\ confInput.parsed.Host = "localhost"
    /\ confInput.parsed.Port = "8080"
    /\ confInput.parsed.TimeAliveIncrementer = 2
    /\ confInput.parsed.TotalheapSizeUpperBound = -1
    /\ confInput.parsed.ThreadsActiveUpperBound = 3
    /\ confInput.parsed.CpuUsageUpperBound = 1
    /\ c = DocumentedDefaults
    /\ mainPc = "wait"

\* C14: the Config getConf hands on has no negative upper bound, also when
\* the file parsed but carries zero or negative values or omits fields.
C14_ConfigInvariant ==
    confInput.file # "none" =>
        /\ c.TotalheapSizeUpperBound >= 0
        /\ c.ThreadsActiveUpperBound >= 0
        /\ c.CpuUsageUpperBound >= 0

\* C15: with an upper bound above 0, every value a callback has passed to
\* Observe lies in [0, upper bound), the bound itself excluded.
C15_ObservedInRange ==
    \A i \in AsyncInstruments :
        CallbackBound(i, cfg) > 0 =>
            \A n \in 1..Len(observed[i]) :
                0 <= observed[i][n] /\ observed[i][n] < CallbackBound(i, cfg)

\* both callbacks have observed the largest value their range allows
C15_Witness ==
    \A i \in AsyncInstruments :
        /\ CallbackBound(i, cfg) > 0
        /\ observed[i] # << >>
        /\ observed[i][1] = CallbackBound(i, cfg) - 1

\* the transition function of the oscillator as the design states it
OscillatorReference(v, rising, bound) ==
    CASE rising /\ v < bound     -> << v + 1, TRUE >>
      [] rising /\ ~(v < bound)  -> << v - 1, FALSE >>
      [] ~rising /\ v > 0        -> << v - 1, FALSE >>
      [] ~rising /\ ~(v > 0)     -> << v + 1, TRUE >>

\* C16: for B >= 1 every tick takes (value, direction) to the image of the
\* reference transition function; a boundary tick moves the value by one.
C16_MatchesReference ==
    Bound >= 1 =>
        \A n \in 1..ticks :
            LET pv == IF n = 1 THEN 0 ELSE tickLog[n - 1].active
                pr == IF n = 1 THEN TRUE ELSE tickLog[n - 1].rising
            IN  /\ << tickLog[n].active, tickLog[n].rising >>
                      = OscillatorReference(pv, pr, Bound)
                /\ tickLog[n].active # pv
                /\ n = ticks =>
                      (threadsActive = tickLog[n].active
                       /\ threadsBool = tickLog[n].rising)

\* all four cases of the transition function have been taken
C16_Witness ==
    /\ Bound = 2
    /\ ticks = 5
    /\ tickLog[3].rising = FALSE
    /\ tickLog[5].rising = TRUE
    /\ threadsActive = 1

\* C17: for B >= 1 the sum of the deltas passed to Add on Threads Active
\* equals the oscillator's current value.
C17_SumEqualsValue ==
    Bound >= 1 => threadsSum = threadsActive

\* C20: a fire is one Time Alive add, then one oscillator tick, and no
\* Observe; the first fire comes before any sleep; the adds lead the ticks by
\* one inside a fire and equal them between fires.
C20_FireOrder ==
    /\ [](schedPc = "updateThreadsActive" => timeAliveCalls = ticks + 1)
    /\ [](schedPc # "updateThreadsActive" => timeAliveCalls = ticks)
    /\ [][ /\ timeAliveCalls' # timeAliveCalls =>
                /\ timeAliveCalls' = timeAliveCalls + 1
                /\ timeAliveCalls = ticks
                /\ UNCHANGED << tickLog, threadsSum, threadsActive,
                                threadsBool, observed >>
           /\ tickLog' # tickLog =>
                /\ ticks' = ticks + 1
                /\ timeAliveCalls = ticks + 1
                /\ UNCHANGED << timeAliveCalls, timeAliveSum, observed >>
           /\ Sleep =>
                /\ ticks >= 1
                /\ UNCHANGED << timeAliveCalls, timeAliveSum, tickLog,
                                threadsSum, observed >>
         ]_vars

\* the third fire is under way: its add is done, its tick is not
C20_Witness ==
    /\ schedPc = "updateThreadsActive"
    /\ timeAliveCalls = 3
    /\ ticks = 2

\* the scheduler goroutine has been started and the process is alive
Running == schedPc # "off" /\ ~crashed

\* the fires that are left cover a whole period of the wave
PeriodAhead == ticks + 2 * Bound <= MaxTicks

\* C18: for B >= 1, as long as the scheduler keeps ticking (its goroutine is
\* scheduled fairly and the process has not ended, which is the one way the
\* loop stops), the value comes to B again and again and comes back to 0
\* again and again: from every state with the scheduler started and a period
\* of fires ahead, the value reaches B and reaches 0 unless the process ends.
C18_BouncesForever ==
    /\ (Running /\ Bound >= 1 /\ PeriodAhead) ~> (crashed \/ threadsActive = Bound)
    /\ (Running /\ Bound >= 1 /\ PeriodAhead) ~> (crashed \/ threadsActive = 0)

\* the scheduler has kept ticking for a whole period: the wave has been to
\* the top and is back at the bottom
C18_Witness ==
    /\ Running
    /\ Bound = MaxUpperBound
    /\ ticks = 2 * Bound
    /\ threadsActive = 0
    /\ threadsBool = FALSE

\* C19: for B >= 1 the oscillator value stays within [0, B] also when
\* several scheduler goroutines run updateThreadsActive on the package
\* variables at once.
C19_RangeUnderConcurrency ==
    Bound >= 1 => (0 <= threadsActive /\ threadsActive <= Bound)

TypeOK ==
    /\ cfg \in ConfigSpace
    /\ pc \in {"new", "collector", "updateCpuUsage", "updateTotalHeapSize",
              "running"}
    /\ schedPc \in {"off", "updateTimeAlive", "updateThreadsActive", "sleep"}
    /\ threadsActive \in Int
    /\ threadsBool \in BOOLEAN
    /\ crashed \in BOOLEAN
====
